---- MODULE Spec2Model ----
(***************************************************************************)
(* The circuit breaker of circuitBreaker.go: one CircuitBreaker shared by  *)
(* concurrent callers of Spark.  Time is a discrete clock of seconds; the  *)
(* critical sections of isOpen, onFail and onSuccess are guarded by the    *)
(* breaker's mutex, the wrapped request runs outside it.                   *)
(***************************************************************************)
EXTENDS Integers, FiniteSets, Sequences, TLC

\* ------------------------------------------------------------------ bounds
NumCallers == 2
MaxTime == 4
MaxCalls == 3
MaxOpenT == 2
MaxCount == 3

Callers == 1..NumCallers

\* --------------------------------------------------------------- constants
stateClose == 0
stateOpen == 1
stateHalfOpen == 2

errFailed == "Failed!! got error"
errOpen == "Circuit Open"
nil == "nil"

\* what a wrapped request may return: (result, error)
Results == {"body"}
Errors == {nil, "Some Error"}

\* the lock is free, or held by a caller
Unlocked == 0

VARIABLES
    circuitName,    \* cb.circuitName
    currentState,   \* cb.currentState
    currentTime,    \* cb.currentTime: time of the last transition
    counters,       \* cb.counters
    tripCircuit,    \* cb.tripCircuit (the name of the predicate)
    untripCircuit,  \* cb.untripCircuit (the name of the predicate)
    openTime,       \* cb.openTime, in seconds
    lock,           \* cb.lock: Unlocked or the caller holding it
    now,            \* time.Now()
    pc,             \* each caller's position in Spark
    req,            \* Spark's local req, per caller
    err,            \* Spark's local err, per caller
    ret,            \* what Spark gave back to each caller
    invoked,        \* whether the caller's current call invoked request()
    calls           \* number of Spark calls made so far

vars == <<circuitName, currentState, currentTime, counters, tripCircuit,
          untripCircuit, openTime, lock, now, pc, req, err, ret, invoked, calls>>

\* ---------------------------------------------------------------- counters
CircuitCounters(f, s, t, r) ==
    [Failure |-> f, Success |-> s, Timeout |-> t, Rejection |-> r]

ZeroCounters == CircuitCounters(0, 0, 0, 0)

\* ResetCounters: all four counters to zero
ResetCounters(c) ==
    [c EXCEPT !.Failure = 0, !.Success = 0, !.Timeout = 0, !.Rejection = 0]


defaultTripCircuitStrict(c) ==
    (c.Failure + c.Success > 0) /\ (2 * c.Failure > c.Failure + c.Success)

\* -------------------------------------------------------------- predicates
\* fail/(fail+success) >= 0.50 on float64 of small integers
defaultTripCircuit(c) ==
    (c.Failure + c.Success > 0) /\ (2 * c.Failure >= c.Failure + c.Success)

defaultUntripSuccessOverOne(c) ==
    c.Success > 1

defaultUntripCircuit(c) ==
    (c.Failure + c.Success > 0) /\ (2 * c.Success >= c.Failure + c.Success)

testTripFunc(c) ==
    (c.Failure + c.Success > 0) /\ (2 * c.Failure > c.Failure + c.Success)

testUntripFunc(c) ==
    (c.Failure + c.Success > 0) /\ (2 * c.Success > c.Failure + c.Success)

\* user-supplied predicates handed to NewCircuitBreaker
TripFuncs == {"default", "test", "always", "never"}
UntripFuncs == {"default", "test", "always", "never"}

ApplyTrip(f, c) ==
    CASE f = "default" -> defaultTripCircuit(c)
      [] f = "test" -> testTripFunc(c)
      [] f = "always" -> TRUE
      [] OTHER -> FALSE

ApplyUntrip(f, c) ==
    CASE f = "default" -> defaultUntripCircuit(c)
      [] f = "test" -> testUntripFunc(c)
      [] f = "always" -> TRUE
      [] OTHER -> FALSE

\* ------------------------------------------------------------- updateState
\* the breaker's mutable fields as one value
CB == [currentState |-> currentState, currentTime |-> currentTime,
       counters |-> counters]

\* cb.currentState = s; cb.currentTime = time.Now(); cb.ResetCounters()
TransitKeepCounters(cb, s, t) ==
    [cb EXCEPT !.currentState = s, !.currentTime = t]

TransitStaleTime(cb, s, t) ==
    [cb EXCEPT !.currentState = s, !.counters = ResetCounters(cb.counters)]

Transit(cb, s, t) ==
    [currentState |-> s, currentTime |-> t,
     counters |-> ResetCounters(cb.counters)]

\* cb.currentTime.Add(cb.openTime).Before(time.Now())
cooldownElapsedInclusive(cb, t) ==
    cb.currentTime + openTime <= t

cooldownElapsed(cb, t) ==
    cb.currentTime + openTime < t

updateStateCloseStale(cb, t) ==
    IF ApplyTrip(tripCircuit, cb.counters)
    THEN TransitKeepCounters(cb, stateOpen, t)
    ELSE cb

updateStateClose(cb, t) ==
    IF ApplyTrip(tripCircuit, cb.counters)
    THEN Transit(cb, stateOpen, t)
    ELSE cb

\* two consecutive ifs: the untrip predicate is evaluated on what the first left
updateStateHalfOpenNoFailureCheck(cb, t) ==
    IF ApplyUntrip(untripCircuit, cb.counters)
    THEN Transit(cb, stateClose, t)
    ELSE cb


updateStateHalfOpenKeepTime(cb, t) ==
    LET afterFail == IF cb.counters.Failure > 0
                     THEN [cb EXCEPT !.currentState = stateOpen,
                                     !.counters = ResetCounters(cb.counters)]
                     ELSE cb
    IN  IF ApplyUntrip(untripCircuit, afterFail.counters)
        THEN Transit(afterFail, stateClose, t)
        ELSE afterFail

updateStateHalfOpen(cb, t) ==
    LET afterFail == IF cb.counters.Failure > 0
                     THEN Transit(cb, stateOpen, t)
                     ELSE cb
    IN  IF ApplyUntrip(untripCircuit, afterFail.counters)
        THEN Transit(afterFail, stateClose, t)
        ELSE afterFail


updateStateOpenKeepCounters(cb, t) ==
    IF cooldownElapsed(cb, t)
    THEN TransitKeepCounters(cb, stateHalfOpen, t)
    ELSE cb

updateStateOpenNoWait(cb, t) ==
    Transit(cb, stateHalfOpen, t)

updateStateOpenStaleTime(cb, t) ==
    IF cooldownElapsed(cb, t)
    THEN TransitStaleTime(cb, stateHalfOpen, t)
    ELSE cb

updateStateOpen(cb, t) ==
    IF cooldownElapsed(cb, t)
    THEN Transit(cb, stateHalfOpen, t)
    ELSE cb


updateStateFallThrough(cb, t) ==
    LET afterOpen == IF cb.currentState = stateOpen
                     THEN updateStateOpen(cb, t)
                     ELSE cb
    IN  CASE afterOpen.currentState = stateClose -> updateStateClose(afterOpen, t)
          [] afterOpen.currentState = stateHalfOpen -> updateStateHalfOpen(afterOpen, t)
          [] OTHER -> afterOpen

updateState(cb, t) ==
    CASE cb.currentState = stateClose -> updateStateClose(cb, t)
      [] cb.currentState = stateHalfOpen -> updateStateHalfOpen(cb, t)
      [] cb.currentState = stateOpen -> updateStateOpen(cb, t)
      [] OTHER -> cb

\* ------------------------------------------------------------------- Spark
\* what a caller of Spark gets: a returned pair, or the request's panic
NoReturn == [kind |-> "none", val |-> nil, err |-> nil]
Returned(r, e) == [kind |-> "return", val |-> r, err |-> e]
Panicked == [kind |-> "panic", val |-> nil, err |-> nil]

\* return nil, errOpen
SparkRejectReturn == Returned(nil, errOpen)

\* return req, err
SparkFailReturnGeneric(r, e) == Returned(r, errFailed)

SparkFailReturn(r, e) == Returned(r, e)

\* return req, nil
SparkSuccessReturn(r) == Returned(r, nil)

SetCB(cb) ==
    /\ currentState' = cb.currentState
    /\ currentTime' = cb.currentTime
    /\ counters' = cb.counters

config == <<circuitName, tripCircuit, untripCircuit, openTime>>


NewDefaultCircuitBreakerTwoSeconds ==
    /\ circuitName = "Service-B Proxy"
    /\ tripCircuit = "default"
    /\ untripCircuit = "default"
    /\ openTime = 2

\* ------------------------------------------------------------ construction
NewDefaultCircuitBreaker ==
    /\ circuitName = "Service-B Proxy"
    /\ tripCircuit = "default"
    /\ untripCircuit = "default"
    /\ openTime = 1

NewCircuitBreaker ==
    /\ circuitName = "my-circuit"
    /\ tripCircuit \in TripFuncs
    /\ untripCircuit \in UntripFuncs
    /\ openTime \in 1..MaxOpenT

Init ==
    /\ NewDefaultCircuitBreaker \/ NewCircuitBreaker
    /\ currentState = stateClose
    /\ currentTime = 0
    /\ counters = ZeroCounters
    /\ lock = Unlocked
    /\ now = 0
    /\ pc = [c \in Callers |-> "idle"]
    /\ req = [c \in Callers |-> nil]
    /\ err = [c \in Callers |-> nil]
    /\ ret = [c \in Callers |-> NoReturn]
    /\ invoked = [c \in Callers |-> FALSE]
    /\ calls = 0

\* ----------------------------------------------------------------- actions
\* a caller enters Spark
Spark(c) ==
    /\ pc[c] \in {"idle", "done"}
    /\ calls < MaxCalls
    /\ calls' = calls + 1
    /\ pc' = [pc EXCEPT ![c] = "isOpen"]
    /\ ret' = [ret EXCEPT ![c] = NoReturn]
    /\ invoked' = [invoked EXCEPT ![c] = FALSE]
    /\ UNCHANGED <<config, currentState, currentTime, counters, lock, now, req, err>>




isOpenSingleProbe(c) ==
    /\ pc[c] = "isOpen"
    /\ lock = Unlocked
    /\ LET cb == updateState(CB, now)
           probing == \E d \in Callers \ {c} : pc[d] = "request"
       IN  /\ SetCB(cb)
           /\ IF \/ cb.currentState = stateOpen
                 \/ cb.currentState = stateHalfOpen /\ probing
              THEN /\ pc' = [pc EXCEPT ![c] = "done"]
                   /\ ret' = [ret EXCEPT ![c] = SparkRejectReturn]
              ELSE /\ pc' = [pc EXCEPT ![c] = "request"]
                   /\ ret' = ret
    /\ UNCHANGED <<config, lock, now, req, err, invoked, calls>>

isOpenAdmitAll(c) ==
    /\ pc[c] = "isOpen"
    /\ lock = Unlocked
    /\ SetCB(updateState(CB, now))
    /\ pc' = [pc EXCEPT ![c] = "request"]
    /\ UNCHANGED <<config, lock, now, req, err, ret, invoked, calls>>

isOpenCountingRejection(c) ==
    /\ pc[c] = "isOpen"
    /\ lock = Unlocked
    /\ LET cb == updateState(CB, now)
       IN  /\ currentState' = cb.currentState
           /\ currentTime' = cb.currentTime
           /\ IF cb.currentState = stateOpen
              THEN /\ pc' = [pc EXCEPT ![c] = "done"]
                   /\ ret' = [ret EXCEPT ![c] = SparkRejectReturn]
                   /\ counters' = [cb.counters EXCEPT !.Rejection = @ + 1]
              ELSE /\ pc' = [pc EXCEPT ![c] = "request"]
                   /\ ret' = ret
                   /\ counters' = cb.counters
    /\ UNCHANGED <<config, lock, now, req, err, invoked, calls>>


isOpenHoldingLock(c) ==
    /\ pc[c] = "isOpen"
    /\ lock = Unlocked
    /\ LET cb == updateState(CB, now)
       IN  /\ SetCB(cb)
           /\ IF cb.currentState = stateOpen
              THEN /\ pc' = [pc EXCEPT ![c] = "done"]
                   /\ ret' = [ret EXCEPT ![c] = SparkRejectReturn]
                   /\ lock' = Unlocked
              ELSE /\ pc' = [pc EXCEPT ![c] = "request"]
                   /\ ret' = ret
                   /\ lock' = c
    /\ UNCHANGED <<config, now, req, err, invoked, calls>>

\* isOpen under the lock: updateState, then read the state
isOpen(c) ==
    /\ pc[c] = "isOpen"
    /\ lock = Unlocked
    /\ LET cb == updateState(CB, now)
       IN  /\ SetCB(cb)
           /\ IF cb.currentState = stateOpen
              THEN /\ pc' = [pc EXCEPT ![c] = "done"]
                   /\ ret' = [ret EXCEPT ![c] = SparkRejectReturn]
              ELSE /\ pc' = [pc EXCEPT ![c] = "request"]
                   /\ ret' = ret
    /\ UNCHANGED <<config, lock, now, req, err, invoked, calls>>

\* req, err := request(): the wrapped work runs, outside the lock, and returns
Request(c) ==
    /\ pc[c] = "request"
    /\ \E r \in Results, e \in Errors :
          /\ req' = [req EXCEPT ![c] = r]
          /\ err' = [err EXCEPT ![c] = e]
          /\ pc' = [pc EXCEPT ![c] = IF e = nil THEN "onSuccess" ELSE "onFail"]
    /\ invoked' = [invoked EXCEPT ![c] = TRUE]
    /\ UNCHANGED <<config, currentState, currentTime, counters, lock, now, ret, calls>>

\* request() panics: the deferred recover is registered only after request()
\* has returned, so the panic leaves Spark with no bookkeeping
RequestPanic(c) ==
    /\ pc[c] = "request"
    /\ invoked' = [invoked EXCEPT ![c] = TRUE]
    /\ pc' = [pc EXCEPT ![c] = "done"]
    /\ ret' = [ret EXCEPT ![c] = Panicked]
    /\ UNCHANGED <<config, currentState, currentTime, counters, lock, now, req, err, calls>>


onFailIncrementStale(c) ==
    /\ pc[c] = "onFail"
    /\ lock = Unlocked
    /\ lock' = c
    /\ counters' = [counters EXCEPT !.Failure = 1]
    /\ pc' = [pc EXCEPT ![c] = "onFailLocked"]
    /\ UNCHANGED <<config, currentState, currentTime, now, req, err, ret, invoked, calls>>

\* onFail: cb.lock.Lock(); cb.counters.Failure++
onFailIncrement(c) ==
    /\ pc[c] = "onFail"
    /\ lock = Unlocked
    /\ lock' = c
    /\ counters' = [counters EXCEPT !.Failure = @ + 1]
    /\ pc' = [pc EXCEPT ![c] = "onFailLocked"]
    /\ UNCHANGED <<config, currentState, currentTime, now, req, err, ret, invoked, calls>>

\* onFail: updateState(cb); unlock; return req, err
onFailUpdate(c) ==
    /\ pc[c] = "onFailLocked"
    /\ lock = c
    /\ SetCB(updateState(CB, now))
    /\ lock' = Unlocked
    /\ ret' = [ret EXCEPT ![c] = SparkFailReturn(req[c], err[c])]
    /\ pc' = [pc EXCEPT ![c] = "done"]
    /\ req' = [req EXCEPT ![c] = nil]
    /\ err' = [err EXCEPT ![c] = nil]
    /\ UNCHANGED <<config, now, invoked, calls>>

\* onSuccess: cb.lock.Lock(); cb.counters.Success++
onSuccessIncrement(c) ==
    /\ pc[c] = "onSuccess"
    /\ lock = Unlocked
    /\ lock' = c
    /\ counters' = [counters EXCEPT !.Success = @ + 1]
    /\ pc' = [pc EXCEPT ![c] = "onSuccessLocked"]
    /\ UNCHANGED <<config, currentState, currentTime, now, req, err, ret, invoked, calls>>

\* onSuccess: updateState(cb); unlock; return req, nil
onSuccessUpdate(c) ==
    /\ pc[c] = "onSuccessLocked"
    /\ lock = c
    /\ SetCB(updateState(CB, now))
    /\ lock' = Unlocked
    /\ ret' = [ret EXCEPT ![c] = SparkSuccessReturn(req[c])]
    /\ pc' = [pc EXCEPT ![c] = "done"]
    /\ req' = [req EXCEPT ![c] = nil]
    /\ err' = [err EXCEPT ![c] = nil]
    /\ UNCHANGED <<config, now, invoked, calls>>

\* the clock advances
Tick ==
    /\ now < MaxTime
    /\ now' = now + 1
    /\ UNCHANGED <<config, currentState, currentTime, counters, lock, pc, req, err,
                   ret, invoked, calls>>

Next ==
    \/ \E c \in Callers : Spark(c)
    \/ \E c \in Callers : isOpen(c)
    \/ \E c \in Callers : Request(c)
    \/ \E c \in Callers : RequestPanic(c)
    \/ \E c \in Callers : onFailIncrement(c)
    \/ \E c \in Callers : onFailUpdate(c)
    \/ \E c \in Callers : onSuccessIncrement(c)
    \/ \E c \in Callers : onSuccessUpdate(c)
    \/ Tick

Spec == Init /\ [][Next]_vars


\* the exported ResetCounters called by a user goroutine: it takes no lock, so
\* it can run at any moment, also inside another caller's critical section
ManualResetCounters ==
    /\ counters' = ResetCounters(counters)
    /\ UNCHANGED <<config, currentState, currentTime, lock, now, pc, req, err,
                   ret, invoked, calls>>

NextManualReset ==
    \/ Next
    \/ ManualResetCounters

SpecManualReset == Init /\ [][NextManualReset]_vars



\* ---------------------------------------------------------------- recovery
\* a default breaker just tripped at time 0 by the failure of a call whose
\* goroutine makes no further call; every other caller is idle or is a call
\* admitted while the breaker was still Closed: about to invoke its work, or
\* back from its work with a failure or a success not yet recorded
InFlightAtTrip == {"idle", "request", "onFail", "onSuccess"}

InitRecovery ==
    /\ NewDefaultCircuitBreaker
    /\ currentState = stateOpen
    /\ currentTime = 0
    /\ counters = ZeroCounters
    /\ lock = Unlocked
    /\ now = 0
    /\ pc \in [Callers -> InFlightAtTrip]
    /\ req = [c \in Callers |-> IF pc[c] \in {"onFail", "onSuccess"} THEN "body" ELSE nil]
    /\ err = [c \in Callers |-> IF pc[c] = "onFail" THEN "Some Error" ELSE nil]
    /\ ret = [c \in Callers |-> NoReturn]
    /\ invoked = [c \in Callers |-> pc[c] \in {"onFail", "onSuccess"}]
    /\ calls = 0

\* a caller enters Spark; callers keep issuing calls, so they are not counted.
\* Once MaxCount successes stand in the counters (which happens only in
\* Closed: fewer calls than that are in flight, and every transition resets
\* the counters) further calls would only repeat the same steps with larger
\* counts, and are left out.
SparkRecovery(c) ==
    /\ pc[c] \in {"idle", "done"}
    /\ counters.Success < MaxCount
    /\ pc' = [pc EXCEPT ![c] = "isOpen"]
    /\ ret' = [ret EXCEPT ![c] = NoReturn]
    /\ invoked' = [invoked EXCEPT ![c] = FALSE]
    /\ UNCHANGED <<config, currentState, currentTime, counters, lock, now, req, err,
                   calls>>

\* req, err := request() with a work that succeeds
RequestSucceeds(c) ==
    /\ Request(c)
    /\ err'[c] = nil

\* a second passes, without end: only currentTime + openTime < now is ever
\* read, so once the clock is at MaxTime a further second is shown by moving
\* the stamp one second back, until the cooldown has elapsed
TickRecovery ==
    /\ IF now < MaxTime
       THEN now' = now + 1 /\ currentTime' = currentTime
       ELSE /\ now' = now
            /\ currentTime' = IF cooldownElapsed(CB, now)
                              THEN currentTime
                              ELSE currentTime - 1
    /\ UNCHANGED <<config, currentState, counters, lock, pc, req, err, ret,
                   invoked, calls>>

NextRecovery ==
    \/ \E c \in Callers : SparkRecovery(c)
    \/ \E c \in Callers : isOpen(c)
    \/ \E c \in Callers : RequestSucceeds(c)
    \/ \E c \in Callers : onFailIncrement(c)
    \/ \E c \in Callers : onFailUpdate(c)
    \/ \E c \in Callers : onSuccessIncrement(c)
    \/ \E c \in Callers : onSuccessUpdate(c)
    \/ TickRecovery

\* every goroutine keeps running (weak fairness on its steps), sync.Mutex
\* hands the lock to every waiter in the end (strong fairness on the steps
\* that take it), time passes and callers keep calling
FairRecovery ==
    /\ WF_vars(TickRecovery)
    /\ \A c \in Callers :
          /\ WF_vars(SparkRecovery(c))
          /\ SF_vars(isOpen(c))
          /\ WF_vars(RequestSucceeds(c))
          /\ SF_vars(onFailIncrement(c))
          /\ WF_vars(onFailUpdate(c))
          /\ SF_vars(onSuccessIncrement(c))
          /\ WF_vars(onSuccessUpdate(c))

SpecRecovery == InitRecovery /\ [][NextRecovery]_vars /\ FairRecovery

\* a default breaker that has been running Closed since construction: after
\* s successes followed by f < s failures the default trip predicate has never
\* fired and the counters are {Failure: f, Success: s}
RunningCounters ==
    {CircuitCounters(f, s, 0, 0) : f \in 0..MaxCount, s \in 0..MaxCount}

InitRunning ==
    /\ NewDefaultCircuitBreaker
    /\ currentState = stateClose
    /\ currentTime = 0
    /\ counters \in {k \in RunningCounters : k.Failure < k.Success \/ k = ZeroCounters}
    /\ lock = Unlocked
    /\ now = 0
    /\ pc = [c \in Callers |-> "idle"]
    /\ req = [c \in Callers |-> nil]
    /\ err = [c \in Callers |-> nil]
    /\ ret = [c \in Callers |-> NoReturn]
    /\ invoked = [c \in Callers |-> FALSE]
    /\ calls = 0

SpecRunning == InitRunning /\ [][Next]_vars

\* ------------------------------------------------------------------ claims
\* the steps of a caller, told by its position in Spark
AdmissionStep(c) == pc[c] = "isOpen" /\ pc'[c] # "isOpen"
WorkStep(c) == pc[c] = "request" /\ pc'[c] # "request"
FailStep(c) == pc[c] = "onFailLocked" /\ pc'[c] = "done"
SuccessStep(c) == pc[c] = "onSuccessLocked" /\ pc'[c] = "done"
OutcomeStep(c) == FailStep(c) \/ SuccessStep(c)
SameBreaker == UNCHANGED <<currentState, currentTime, counters>>
DefaultPredicates == tripCircuit = "default" /\ untripCircuit = "default"

\* C1: a call whose admission check finds the breaker Open before
\* currentTime + openTime is answered (nil, errOpen), its request is not
\* invoked, and state, timestamp and all four counters are left as they were.
C1_RejectedWhileOpen ==
    [][\A c \in Callers :
          (AdmissionStep(c) /\ currentState = stateOpen
                            /\ now < currentTime + openTime)
          => /\ pc'[c] = "done"
             /\ ret'[c] = Returned(nil, errOpen)
             /\ ~invoked'[c]
             /\ SameBreaker]_vars

C1_Witness ==
    \E c \in Callers :
        /\ pc[c] = "done"
        /\ ret[c] = Returned(nil, errOpen)
        /\ ~invoked[c]
        /\ currentState = stateOpen
        /\ now < currentTime + openTime

\* C2: an outcome recorded while Closed opens the breaker exactly when the
\* trip predicate holds on the counters including that outcome; when it opens,
\* the counters are zero and the time is recorded, otherwise the breaker stays
\* Closed with the counters kept.
C2_TripExactlyWhenPredicate ==
    [][\A c \in Callers :
          (OutcomeStep(c) /\ currentState = stateClose)
          => /\ (currentState' = stateOpen) <=> ApplyTrip(tripCircuit, counters)
             /\ currentState' = stateOpen
                   => counters' = ZeroCounters /\ currentTime' = now
             /\ currentState' # stateOpen
                   => currentState' = stateClose /\ UNCHANGED <<counters, currentTime>>]_vars

C2_Witness ==
    \E c \in Callers :
        /\ pc[c] = "done"
        /\ ret[c].kind = "return" /\ ret[c].err = "Some Error"
        /\ \A d \in Callers \ {c} : pc[d] = "idle"
        /\ calls = 3
        /\ tripCircuit = "test"
        /\ currentState = stateOpen
        /\ counters = ZeroCounters
        /\ currentTime = 0

\* C3: a call whose admission check finds the breaker Open strictly later
\* than currentTime + openTime moves it to HalfOpen (time recorded, counters
\* cleared) and is admitted; an admitted call invokes its request and is not
\* answered errOpen.
C3_ProbeAfterCooldown ==
    [][\A c \in Callers :
          /\ (AdmissionStep(c) /\ currentState = stateOpen
                               /\ now > currentTime + openTime)
             => /\ currentState' = stateHalfOpen
                /\ currentTime' = now
                /\ counters' = ZeroCounters
                /\ pc'[c] = "request"
                /\ ret'[c] # SparkRejectReturn
          /\ WorkStep(c) => invoked'[c] /\ ret'[c] # SparkRejectReturn]_vars

C3_Witness ==
    \E c \in Callers :
        /\ pc[c] \in {"onFail", "onSuccess"}
        /\ invoked[c]
        /\ \A d \in Callers \ {c} : pc[d] = "idle"
        /\ calls = 2
        /\ currentState = stateHalfOpen
        /\ counters = ZeroCounters
        /\ currentTime > openTime

\* C4 as claimed: a call arriving exactly at currentTime + openTime moves the
\* breaker to HalfOpen and is admitted.
C4_BoundaryAdmits ==
    [][\A c \in Callers :
          (AdmissionStep(c) /\ currentState = stateOpen
                            /\ now = currentTime + openTime)
          => currentState' = stateHalfOpen /\ pc'[c] = "request"]_vars

\* C4 amended: the check is strict, now > currentTime + openTime: a call
\* arriving exactly at currentTime + openTime is rejected with errOpen and
\* leaves the breaker Open and unchanged; an admission check moves an Open
\* breaker to HalfOpen exactly when now is strictly later.
C4_BoundaryRejects ==
    [][\A c \in Callers :
          /\ (AdmissionStep(c) /\ currentState = stateOpen
                               /\ now = currentTime + openTime)
             => /\ pc'[c] = "done"
                /\ ret'[c] = Returned(nil, errOpen)
                /\ SameBreaker
          /\ (AdmissionStep(c) /\ currentState = stateOpen)
             => ((currentState' = stateHalfOpen) <=> (now > currentTime + openTime))]_vars

C4_Witness ==
    \E c \in Callers :
        /\ pc[c] = "done"
        /\ ret[c] = Returned(nil, errOpen)
        /\ currentState = stateOpen
        /\ now = currentTime + openTime

\* C5 as claimed: when the request of an admitted call panics, the breaker
\* counts a failure and re-evaluates its state, as for a returned error,
\* before the panic reaches the caller.
C5_PanicCountedAsFailure ==
    [][\A c \in Callers :
          (WorkStep(c) /\ ret'[c] = Panicked)
          => LET cb == updateState([CB EXCEPT !.counters.Failure = @ + 1], now)
             IN  /\ currentState' = cb.currentState
                 /\ counters' = cb.counters]_vars

\* C6: with the default predicates, a failure recorded while HalfOpen leaves
\* the breaker Open with all counters zero and currentTime the time of that
\* failure.
C6_FailingProbeReopens ==
    [][\A c \in Callers :
          (FailStep(c) /\ currentState = stateHalfOpen /\ DefaultPredicates)
          => /\ currentState' = stateOpen
             /\ counters' = ZeroCounters
             /\ currentTime' = now]_vars

\* two calls in all, both failed, and the breaker Open with zero counters: the
\* first failure tripped it, the second was a probe recorded while HalfOpen
C6_Witness ==
    \E c, d \in Callers :
        /\ c # d
        /\ pc[d] = "done" /\ ret[d] = Returned("body", "Some Error")
        /\ pc[c] = "done" /\ ret[c] = Returned("body", "Some Error")
        /\ calls = 2
        /\ DefaultPredicates
        /\ currentState = stateOpen
        /\ counters = ZeroCounters
        /\ currentTime = now
        /\ currentTime > openTime

\* C7 as claimed: for every untrip predicate, a failure recorded while
\* HalfOpen leaves the breaker Open, never Closed.
C7_FailureBeforeUntrip ==
    [][\A c \in Callers :
          (FailStep(c) /\ currentState = stateHalfOpen)
          => currentState' = stateOpen]_vars

C10_ResultPassthrough ==
    [][\A c \in Callers :
          /\ WorkStep(c) /\ ret'[c] # Panicked
             => req'[c] \in Results /\ err'[c] \in Errors
          /\ pc[c] \in {"onFail", "onSuccess"}
             => req'[c] = req[c] /\ err'[c] = err[c]
          /\ OutcomeStep(c) => ret'[c] = Returned(req[c], err[c])
          /\ pc'[c] = "done" /\ invoked'[c] => ret'[c].err # errOpen
          /\ pc'[c] = "done" /\ ret'[c].err = errOpen => ~invoked'[c]]_vars

C10_Witness ==
    \E c, d \in Callers :
        /\ pc[c] = "done" /\ ret[c] = Returned("body", "Some Error")
        /\ pc[d] = "done" /\ ret[d] = Returned(nil, errOpen)

\* C11: a request that returned nil error takes its caller through exactly one
\* Success increment by 1, one that returned an error through exactly one
\* Failure increment by 1, each before the state is re-evaluated and touching
\* nothing else; a rejected call changes no counter; Timeout and Rejection are
\* 0 in every reachable state.
C11_OneCounterPerOutcome ==
    /\ [](counters.Timeout = 0 /\ counters.Rejection = 0)
    /\ [][\A c \in Callers :
            /\ WorkStep(c) /\ ret'[c] # Panicked
               => /\ pc'[c] = (IF err'[c] = nil THEN "onSuccess" ELSE "onFail")
                  /\ SameBreaker
            /\ pc[c] = "onSuccess" /\ pc'[c] # "onSuccess"
               => /\ pc'[c] = "onSuccessLocked"
                  /\ counters' = [counters EXCEPT !.Success = @ + 1]
                  /\ UNCHANGED <<currentState, currentTime>>
            /\ pc[c] = "onFail" /\ pc'[c] # "onFail"
               => /\ pc'[c] = "onFailLocked"
                  /\ counters' = [counters EXCEPT !.Failure = @ + 1]
                  /\ UNCHANGED <<currentState, currentTime>>
            /\ AdmissionStep(c)
               => counters' = counters \/ counters' = ZeroCounters
            /\ AdmissionStep(c) /\ pc'[c] = "done"
               => ret'[c] = SparkRejectReturn /\ counters' = counters]_vars

C11_Witness ==
    \E c, d \in Callers :
        /\ pc[c] = "done" /\ ret[c] = SparkRejectReturn
        /\ pc[d] = "onSuccessLocked"
        /\ counters = CircuitCounters(0, 1, 0, 0)

\* C12: when every caller has made exactly one call, all of them have
\* returned what their request returned, and the trip predicate never fired
\* (it never fires, or it is a ratio predicate and no request failed), then
\* Success is the number of calls whose request succeeded, Failure the number
\* whose request failed, and together they are the number of callers.
AllReturnedOnce ==
    /\ calls = NumCallers
    /\ \A c \in Callers : pc[c] = "done" /\ ret[c].kind = "return"

Succeeded == {c \in Callers : ret[c].err = nil}
Failed == {c \in Callers : ret[c].err \in Errors \ {nil}}

TripNeverFired ==
    \/ tripCircuit = "never"
    \/ tripCircuit \in {"default", "test"} /\ Failed = {}

C12_NoLostUpdates ==
    (AllReturnedOnce /\ TripNeverFired)
    => /\ currentState = stateClose
       /\ counters.Success = Cardinality(Succeeded)
       /\ counters.Failure = Cardinality(Failed)
       /\ counters.Success + counters.Failure = NumCallers

C12_Witness ==
    /\ AllReturnedOnce
    /\ tripCircuit = "never"
    /\ Succeeded # {}
    /\ Cardinality(Failed) = NumCallers - 1
    /\ counters.Success + counters.Failure = NumCallers

\* C13: while a caller's request is executing, that caller does not hold the
\* lock: the lock is free, or held by a caller inside its bookkeeping whose
\* next step releases it; with the lock free, every other caller's admission
\* check or bookkeeping can be taken at once.
InCriticalSection(d) == pc[d] \in {"onFailLocked", "onSuccessLocked"}

C13_LockNotHeldAcrossWork ==
    \A c \in Callers :
        pc[c] = "request"
        => /\ lock # c
           /\ lock # Unlocked
              => /\ InCriticalSection(lock)
                 /\ ENABLED (onFailUpdate(lock) \/ onSuccessUpdate(lock))
           /\ lock = Unlocked
              => \A d \in Callers \ {c} :
                    /\ pc[d] = "isOpen" => ENABLED isOpen(d)
                    /\ pc[d] = "onFail" => ENABLED onFailIncrement(d)
                    /\ pc[d] = "onSuccess" => ENABLED onSuccessIncrement(d)

C13_Witness ==
    \E c, d \in Callers :
        /\ pc[c] = "request"
        /\ lock = d
        /\ pc[d] = "onFailLocked"

\* C14 as claimed: every write of the counters is made by a caller of Spark in
\* a step taken under the lock, and while a caller is inside its
\* increment-and-evaluate critical section nothing else changes the counters,
\* the manual ResetCounters included.
C14_MutationsUnderLock ==
    [][/\ counters' # counters => \E c \in Callers : pc'[c] # pc[c]
       /\ \A c \in Callers :
             InCriticalSection(c) /\ pc'[c] = pc[c] => counters' = counters]_vars

\* C15: every step that changes the breaker's state sets all four counters to
\* zero and currentTime to the current time, in that same step.
C15_ResetOnTransition ==
    [][currentState' # currentState
       => counters' = ZeroCounters /\ currentTime' = now]_vars

\* two calls in all on a breaker with the default trip predicate, a success
\* and then a failure: the failure tripped it at a time after construction,
\* and the counters {Success:1, Failure:1} it tripped on are gone
C15_Witness ==
    \E c, d \in Callers :
        /\ c # d
        /\ pc[d] = "done" /\ ret[d] = Returned("body", nil)
        /\ pc[c] = "done" /\ ret[c] = Returned("body", "Some Error")
        /\ calls = 2
        /\ tripCircuit = "default"
        /\ currentState = stateOpen
        /\ counters = ZeroCounters
        /\ currentTime = now /\ now > 0

\* C16: on the default breaker an outcome recorded while Closed opens it
\* exactly when Failure + Success > 0 and 2 * Failure >= Failure + Success on
\* the counters including that outcome: {Success:2, Failure:1} stays Closed
\* with the counters kept, {Success:2, Failure:2} and {Success:1, Failure:1}
\* open it with the counters zero.
C16_DefaultTripThreshold ==
    [][\A c \in Callers :
          (OutcomeStep(c) /\ currentState = stateClose /\ tripCircuit = "default")
          => LET f == counters.Failure
                 s == counters.Success
             IN  /\ (currentState' = stateOpen) <=> (f + s > 0 /\ 2 * f >= f + s)
                 /\ (f = 1 /\ s = 2)
                       => currentState' = stateClose /\ counters' = counters
                 /\ (f = 2 /\ s = 2)
                       => currentState' = stateOpen /\ counters' = ZeroCounters
                 /\ (f = 1 /\ s = 1)
                       => currentState' = stateOpen /\ counters' = ZeroCounters]_vars

\* the second failure after two successes is being recorded: 2/4
C16_Witness ==
    \E c \in Callers :
        /\ pc[c] = "onFailLocked"
        /\ currentState = stateClose
        /\ tripCircuit = "default"
        /\ counters = CircuitCounters(2, 2, 0, 0)

\* C17: a breaker built by either constructor starts Closed with all four
\* counters zero; the default constructor's cooldown is 1 second with the
\* default predicates and the custom constructor's cooldown is the openT it
\* was given, and neither changes afterwards; the first Spark call on a fresh
\* breaker with the default trip predicate is admitted and leaves the breaker
\* Closed with zero counters.
C17_InitialState ==
    /\ currentState = stateClose
    /\ counters = ZeroCounters
    /\ circuitName = "Service-B Proxy"
          => openTime = 1 /\ tripCircuit = "default" /\ untripCircuit = "default"
    /\ circuitName = "my-circuit" => openTime \in 1..MaxOpenT
    /\ [][/\ UNCHANGED config
          /\ \A c \in Callers :
                (AdmissionStep(c) /\ calls = 1 /\ tripCircuit = "default")
                => /\ pc'[c] = "request"
                   /\ currentState' = stateClose
                   /\ counters' = ZeroCounters]_vars

\* the first call on a fresh default breaker, made after some time, was admitted
C17_Witness ==
    \E c \in Callers :
        /\ calls = 1
        /\ pc[c] = "request"
        /\ circuitName = "Service-B Proxy"
        /\ openTime = 1
        /\ currentState = stateClose
        /\ counters = ZeroCounters
        /\ now > openTime

\* C18 as stated: no invocation of a wrapped work begins while the breaker is
\* Open.
C18_NoWorkWhileOpen ==
    [][\A c \in Callers : WorkStep(c) => currentState # stateOpen]_vars

\* C18: a caller goes on to its work only from its own admission check, and
\* that check left the breaker Closed or HalfOpen; nothing is checked again
\* between the admission and the work.
C18_WorkOnlyAfterOwnAdmission ==
    [][\A c \in Callers :
          /\ (pc'[c] = "request" /\ pc[c] # "request")
                => AdmissionStep(c) /\ currentState' \in {stateClose, stateHalfOpen}
          /\ WorkStep(c) => pc[c] = "request" /\ UNCHANGED <<CB, lock>>]_vars

\* a caller admitted before another caller's failure tripped the breaker is
\* about to invoke its work while the breaker is Open
C18_Witness ==
    \E c, d \in Callers :
        /\ c # d
        /\ pc[c] = "request"
        /\ pc[d] = "done" /\ ret[d] = Returned("body", "Some Error")
        /\ calls = 2
        /\ currentState = stateOpen

\* C19 as stated: the outcome of a call admitted before a state transition is
\* never counted toward the counters of a state entered afterwards.  No call
\* is admitted while the breaker is Open, so every outcome counted into
\* Open's counters would be such an outcome: none is counted while Open.
C19_OutcomesNotMixed ==
    [][\A c \in Callers :
          (pc[c] \in {"onFail", "onSuccess"} /\ InCriticalSection(c)')
          => currentState # stateOpen]_vars

\* C20 as stated: whenever the breaker is Open (and no bookkeeping is in its
\* critical section) all four counters are zero.
C20_ZeroCountersWhileOpen ==
    (currentState = stateOpen /\ lock = Unlocked) => counters = ZeroCounters

\* C21 as stated: for every pair of predicates the admission step changes the
\* breaker only by Open -> HalfOpen; when the breaker is Closed or HalfOpen the
\* admission step leaves state, timestamp and counters unchanged and admits
\* the call.
C21_AdmissionOnlyTimeBased ==
    [][\A c \in Callers :
          AdmissionStep(c)
          => /\ currentState' # currentState
                   => currentState = stateOpen /\ currentState' = stateHalfOpen
             /\ currentState \in {stateClose, stateHalfOpen}
                   => /\ currentState' = currentState
                      /\ currentTime' = currentTime
                      /\ counters' = counters
                      /\ pc'[c] = "request"]_vars

\* the callers whose work has been admitted and has not yet been invoked
AtWork == {c \in Callers : pc[c] = "request"}

\* C22 as stated: at most one work invocation admitted in HalfOpen is in
\* flight at any time.  With a trip predicate that always holds no call is
\* admitted in Closed and with an untrip predicate that never holds no
\* admission closes the breaker, so every call in flight there was admitted in
\* HalfOpen.
C22_SingleProbeInHalfOpen ==
    (tripCircuit = "always" /\ untripCircuit = "never")
    => Cardinality(AtWork) <= 1

\* C22: a call whose admission check finds the breaker HalfOpen is admitted
\* whatever other calls are in flight; the check leaves the breaker HalfOpen,
\* or Closed when the untrip predicate holds.
C22_HalfOpenAdmitsAll ==
    [][\A c \in Callers :
          (AdmissionStep(c) /\ currentState = stateHalfOpen)
          => /\ pc'[c] = "request"
             /\ ret'[c] = NoReturn
             /\ currentState' \in {stateHalfOpen, stateClose}]_vars

\* two probes admitted in HalfOpen are in flight at once
C22_Witness ==
    /\ tripCircuit = "always" /\ untripCircuit = "never"
    /\ currentState = stateHalfOpen
    /\ AtWork = Callers

\* C23 as stated: the passing of time alone changes neither state nor
\* counters, and the breaker goes Open -> HalfOpen only in the admission step
\* of a call, never in the outcome bookkeeping of a call in flight.
C23_HalfOpenOnlyAtAdmission ==
    [][/\ now' # now => SameBreaker
       /\ (currentState = stateOpen /\ currentState' = stateHalfOpen)
             => \E c \in Callers : AdmissionStep(c)]_vars

\* C24: every entry into Open, from Closed or from HalfOpen, stamps
\* currentTime with the time of the entry, and while the breaker is Open no
\* step taken at a time <= currentTime + openTime (an arriving call, the
\* bookkeeping of a call in flight, time passing) takes it out of Open or
\* moves the stamp.
C24_FreshCooldownOnEveryOpen ==
    [][/\ (currentState # stateOpen /\ currentState' = stateOpen)
             => currentTime' = now
       /\ (currentState = stateOpen /\ now' <= currentTime + openTime)
             => currentState' = stateOpen /\ currentTime' = currentTime]_vars

\* a failed probe re-opened the breaker after the first trip; another probe
\* in flight completed afterwards (its success sits in Open's counters) and
\* the breaker is still Open at the re-entry time plus the cooldown
C24_Witness ==
    \E c, d \in Callers :
        /\ tripCircuit = "always" /\ untripCircuit = "never"
        /\ pc[d] = "done" /\ ret[d] = Returned("body", "Some Error")
        /\ pc[c] = "done" /\ ret[c] = Returned("body", nil)
        /\ currentState = stateOpen
        /\ counters = CircuitCounters(0, 1, 0, 0)
        /\ currentTime > openTime
        /\ now = currentTime + openTime

\* the state changes the breaker may make in one atomic step
LegalTransitions ==
    {<<stateClose, stateOpen>>, <<stateOpen, stateHalfOpen>>,
     <<stateHalfOpen, stateOpen>>, <<stateHalfOpen, stateClose>>}

\* C25: the state is always one of Closed, Open, HalfOpen, and every atomic
\* state change is Closed->Open, Open->HalfOpen, HalfOpen->Open or
\* HalfOpen->Closed; never Closed->HalfOpen, never Open->Closed.
C25_OnlyLegalTransitions ==
    /\ [](currentState \in {stateClose, stateOpen, stateHalfOpen})
    /\ [][currentState' # currentState
             => <<currentState, currentState'>> \in LegalTransitions]_vars

\* the breaker has been round the cycle: tripped by a failure, probed after
\* the cooldown and closed by the successful probe
C25_Witness ==
    \E c, d \in Callers :
        /\ c # d
        /\ DefaultPredicates
        /\ pc[d] = "done" /\ ret[d] = Returned("body", "Some Error")
        /\ pc[c] = "done" /\ ret[c] = Returned("body", nil)
        /\ calls = 2
        /\ currentState = stateClose
        /\ currentTime > openTime

\* a probe has just been admitted: the breaker is HalfOpen and a call is
\* past its admission check and about to invoke its work
ProbeAdmitted ==
    /\ currentState = stateHalfOpen
    /\ \E c \in Callers : pc[c] = "request"

C26_EventuallyHalfOpen == <>(currentState = stateHalfOpen)
C26_EventuallyProbe == <>ProbeAdmitted
C26_EventuallyClosedForGood == <>[](currentState = stateClose)

\* C27: in every state between the atomic steps (the lock is free) in which
\* the breaker is HalfOpen, the Failure counter is 0.
C27_HalfOpenHoldsNoFailure ==
    (currentState = stateHalfOpen /\ lock = Unlocked) => counters.Failure = 0

\* two calls admitted while Closed both failed: the first tripped the
\* breaker, the second was recorded after the cooldown and its bookkeeping
\* moved the breaker to HalfOpen, where no failure stands
C27_Witness ==
    /\ currentState = stateHalfOpen
    /\ lock = Unlocked
    /\ calls = 2
    /\ \A c \in Callers :
          pc[c] = "done" /\ ret[c] = Returned("body", "Some Error")
    /\ counters = ZeroCounters

====
